---- MODULE Spec2Model ----
(***************************************************************************)
(* CalDAV bridge (src/app.py): the discovery chain, the event query, the   *)
(* event document builder and the deletion, as a state machine over the    *)
(* outbound requests each handler issues.                                  *)
(*                                                                         *)
(* A string is a sequence of atoms.  The characters the code inspects      *)
(* (the scheme prefix, '/', CR, LF, backslash, white space, letters of a   *)
(* uid) are one-character atoms; a longer atom stands for literal text     *)
(* that contains none of them.  An optional string (Python's None) is a    *)
(* record [some, v].                                                       *)
(***************************************************************************)
EXTENDS Integers, Sequences, FiniteSets, TLC

\* ---------------------------------------------------------------- bounds
MaxResp == 2
MaxDescLen == 2

\* ---------------------------------------------------------------- strings
CR == "\r"
LF == "\n"
BS == "\\"
SP == " "
Whitespace == {SP, LF, CR, "\t"}

None == [some |-> FALSE, v |-> <<>>]
Some(s) == [some |-> TRUE, v |-> s]

\* Python truthiness of an Optional[str]: neither None nor "".
Truthy(o) == o.some /\ o.v # <<>>

\* o or d
OrElse(o, d) == IF Truthy(o) THEN o.v ELSE d

StartsWith(s, p) == Len(s) >= Len(p) /\ SubSeq(s, 1, Len(p)) = p

RECURSIVE LStrip(_, _)
LStrip(s, chars) ==
    IF s # <<>> /\ Head(s) \in chars THEN LStrip(Tail(s), chars) ELSE s

RECURSIVE RStrip(_, _)
RStrip(s, chars) ==
    IF s # <<>> /\ s[Len(s)] \in chars THEN RStrip(SubSeq(s, 1, Len(s) - 1), chars) ELSE s

\* str.strip()
Strip(s) == LStrip(RStrip(s, Whitespace), Whitespace)

RECURSIVE Replace_FirstOnly(_, _, _)
Replace_FirstOnly(s, old, new) ==
    IF Len(s) < Len(old) THEN s
    ELSE IF StartsWith(s, old) THEN new \o SubSeq(s, Len(old) + 1, Len(s))
    ELSE <<Head(s)>> \o Replace_FirstOnly(Tail(s), old, new)

\* str.replace(old, new), old non-empty: every occurrence, left to right
RECURSIVE Replace(_, _, _)
Replace(s, old, new) ==
    IF Len(s) < Len(old) THEN s
    ELSE IF StartsWith(s, old)
         THEN new \o Replace(SubSeq(s, Len(old) + 1, Len(s)), old, new)
    ELSE <<Head(s)>> \o Replace(Tail(s), old, new)

\* sep.join(lines)
RECURSIVE Join(_, _)
Join(lines, sep) ==
    IF lines = <<>> THEN <<>>
    ELSE IF Len(lines) = 1 THEN lines[1]
    ELSE lines[1] \o sep \o Join(Tail(lines), sep)

UpperChar(c) ==
    CASE c = "a" -> "A" [] c = "b" -> "B" [] c = "c" -> "C"
      [] c = "d" -> "D" [] c = "e" -> "E" [] c = "f" -> "F"
      [] OTHER -> c

\* str.upper()
Upper(s) == [i \in 1..Len(s) |-> UpperChar(s[i])]

\* all sequences over S of length at most n
SeqsUpTo(S, n) == UNION {[1..k -> S] : k \in 0..n}

\* ---------------------------------------------------------------- configuration
HTTP == <<"h", "t", "t", "p", ":", "/", "/">>
HTTPS == <<"h", "t", "t", "p", "s", ":", "/", "/">>

\* values the BASE_URL environment variable may hold
BaseEnvs ==
    { HTTPS \o <<"caldav.icloud.com">>,
      HTTPS \o <<"caldav.icloud.com", "/">>,
      HTTP \o <<"localhost:5232">>,
      <<"H", "T", "T", "P", "S", ":", "/", "/", "caldav.icloud.com">> }

\* BASE = os.environ.get("BASE_URL", ...).rstrip("/")
BaseOf(env) == RStrip(env, {"/"})

IsFullUrl(h) == StartsWith(h, HTTP) \/ StartsWith(h, HTTPS)

Resolve_AlwaysPrefix(base, h) == base \o h

\* h if h.startswith(('http://', 'https://')) else f"{BASE}{h}"
Resolve(base, h) == IF IsFullUrl(h) THEN h ELSE base \o h

\* ---------------------------------------------------------------- XML documents
\* A response body: wf says whether it is well-formed XML.  For a well-formed
\* body, cup / purl / chs list the text (el.text, None when the element is
\* empty) of the elements matching current-user-principal/href,
\* principal-URL/href and calendar-home-set/href in document order, and
\* resps lists the response elements: for each, its href child, its
\* displayname descendant and its calendar-data descendant, each absent
\* (present = FALSE) or present with a text.
NoDoc == [wf |-> FALSE, cup |-> <<>>, purl |-> <<>>, chs |-> <<>>, resps |-> <<>>]
EmptyDoc == [wf |-> TRUE, cup |-> <<>>, purl |-> <<>>, chs |-> <<>>, resps |-> <<>>]

Absent == [present |-> FALSE, text |-> None]
Elem(t) == [present |-> TRUE, text |-> t]

ParseRaises_Never(body) == FALSE

\* parse_xml raises HTTPException(502) on ET.ParseError
ParseRaises(body) == ~body.wf

\* find_text: root.find returns the first matching element only
FindText(els) ==
    IF els # <<>> /\ Truthy(els[1]) THEN Some(Strip(els[1].v)) ELSE None

\* the elements an XPath of extract_principal_href selects; the d: prefix
\* is bound to DAV:, so the prefix form and the {DAV:} form select the same
ElementsAt(body, xp) ==
    CASE xp = ".//d:current-user-principal/d:href" -> body.cup
      [] xp = ".//{DAV:}current-user-principal/{DAV:}href" -> body.cup
      [] xp = ".//d:principal-URL/d:href" -> body.purl
      [] xp = ".//{DAV:}principal-URL/{DAV:}href" -> body.purl
      [] xp = ".//c:calendar-home-set/d:href" -> body.chs
      [] xp = ".//{urn:ietf:params:xml:ns:caldav}calendar-home-set/{DAV:}href" -> body.chs

PrincipalXPaths ==
    << ".//d:current-user-principal/d:href",
       ".//d:principal-URL/d:href",
       ".//{DAV:}current-user-principal/{DAV:}href",
       ".//{DAV:}principal-URL/{DAV:}href" >>

\* the loop of extract_principal_href from candidate i on
RECURSIVE FirstTruthy(_, _, _)
FirstTruthy(body, xps, i) ==
    IF i > Len(xps) THEN None
    ELSE LET val == FindText(ElementsAt(body, xps[i]))
         IN IF Truthy(val) THEN val ELSE FirstTruthy(body, xps, i + 1)

ExtractPrincipalHref(body) == FirstTruthy(body, PrincipalXPaths, 1)

\* find_text(a) or find_text(b) of home()
ExtractHomeHref(body) ==
    LET a == FindText(ElementsAt(body, ".//c:calendar-home-set/d:href"))
        b == FindText(ElementsAt(body,
                 ".//{urn:ietf:params:xml:ns:caldav}calendar-home-set/{DAV:}href"))
    IN IF Truthy(a) THEN a ELSE b

\* ---------------------------------------------------------------- transport
Transport == [kind |-> "transport", status |-> 0, body |-> NoDoc]
Http(s, b) == [kind |-> "http", status |-> s, body |-> b]

ErrorStatuses == {404, 502}

\* a status below 400 that is no success and that requests does not follow
UnfollowedStatuses == {304}

\* what the server may answer to a PROPFIND or REPORT whose successful
\* bodies are drawn from docs
Responses(docs) ==
    {Transport} \cup {Http(s, NoDoc) : s \in ErrorStatuses \cup UnfollowedStatuses}
                \cup {Http(207, b) : b \in docs}

IsError_Only5xx(status) == status >= 500

\* r.status_code >= 400
IsError(status) == status >= 400

Dav_Always502(env, resp) ==
    IF ~env
    THEN [sent |-> FALSE, raised |-> TRUE, status |-> 500, cause |-> "config"]
    ELSE IF resp.kind = "transport"
    THEN [sent |-> TRUE, raised |-> TRUE, status |-> 502, cause |-> "transport"]
    ELSE IF IsError(resp.status)
    THEN [sent |-> TRUE, raised |-> TRUE, status |-> 502, cause |-> "upstream"]
    ELSE [sent |-> TRUE, raised |-> FALSE, status |-> resp.status, cause |-> "ok"]

\* dav(): sent says whether the request went out, raised whether an
\* HTTPException was raised, with its status and cause
Dav(env, resp) ==
    IF ~env
    THEN [sent |-> FALSE, raised |-> TRUE, status |-> 500, cause |-> "config"]
    ELSE IF resp.kind = "transport"
    THEN [sent |-> TRUE, raised |-> TRUE, status |-> 502, cause |-> "transport"]
    ELSE IF IsError(resp.status)
    THEN [sent |-> TRUE, raised |-> TRUE, status |-> resp.status, cause |-> "upstream"]
    ELSE [sent |-> TRUE, raised |-> FALSE, status |-> resp.status, cause |-> "ok"]

\* ---------------------------------------------------------------- inputs
RelPrincipal == <<"/", "123", "/", "principal", "/">>
AbsPrincipal == HTTPS \o <<"p01-caldav.icloud.com">> \o RelPrincipal
RelHome == <<"/", "123", "/", "calendars", "/">>
AbsHome == HTTPS \o <<"p01-caldav.icloud.com">> \o RelHome
RelCalendar == RelHome \o <<"work", "/">>

\* texts an href element of a discovery response may carry
HrefTexts(rel, abs) ==
    { None, Some(<<SP>>), Some(<<LF, SP>> \o rel \o <<SP, LF>>), Some(abs) }

PrincipalDocs ==
    {NoDoc} \cup
    { [EmptyDoc EXCEPT !.cup = c, !.purl = u] :
        c \in {<<>>} \cup {<<t>> : t \in HrefTexts(RelPrincipal, AbsPrincipal)}
                     \cup {<<None, Some(RelPrincipal)>>},
        u \in {<<>>, <<Some(RelPrincipal)>>} }

HomeDocs ==
    {NoDoc} \cup
    { [EmptyDoc EXCEPT !.chs = c] :
        c \in {<<>>} \cup {<<t>> : t \in HrefTexts(RelHome, AbsHome)} }

\* ---------------------------------------------------------------- state
VARIABLES
    BASE,      \* the configured base authority (module global BASE)
    envOK,     \* APPLE_ID and APPLE_APP_PASSWORD are both set
    op,        \* the handler that is running
    pc,        \* its position: the next outbound request, "done", or "idle"
    req,       \* its inbound request
    pHref,     \* local p of home(): the principal href
    homeHref,  \* local home_href of calendars()
    log,       \* the outbound requests the handler has issued, in order
    doc,       \* the last response body handed to the parser
    result,    \* what the handler returned or raised
    earlierHome \* history: the home href the latest earlier listing call
               \* obtained; the program itself keeps no such value

vars == <<BASE, envOK, op, pc, req, pHref, homeHref, log, doc, result, earlierHome>>

NoResult ==
    [kind |-> "none", status |-> 0, cause |-> "", href |-> <<>>, items |-> <<>>, uid |-> <<>>]

\* raise HTTPException(status, ...)
Raise(status, cause) == [NoResult EXCEPT !.kind = "error", !.status = status, !.cause = cause]

\* return {...}
Return(href, items, uid) ==
    [NoResult EXCEPT !.kind = "ok", !.status = 200, !.cause = "ok",
                     !.href = href, !.items = items, !.uid = uid]

\* one issued request: step names the code place, src the href the target
\* was built from (None for the fixed discovery paths), outcome how the
\* attempt ended, got the href the response yielded
Entry(step, method, url, depth, body, src, resp, outcome, got) ==
    [step |-> step, method |-> method, url |-> url, depth |-> depth, body |-> body,
     src |-> src, status |-> resp.status, outcome |-> outcome, got |-> got,
     ifNoneMatch |-> "", data |-> <<>>]

NoReq ==
    [key |-> TRUE, href |-> <<>>, start |-> <<>>, end |-> <<>>, summary |-> <<>>,
     description |-> None, uid |-> None, now |-> <<>>, gen |-> <<>>]

Init ==
    /\ BASE \in {BaseOf(e) : e \in BaseEnvs}
    /\ envOK \in BOOLEAN
    /\ op = "none"
    /\ pc = "idle"
    /\ req = NoReq
    /\ pHref = <<>>
    /\ homeHref = <<>>
    /\ log = <<>>
    /\ doc = NoDoc
    /\ result = NoResult
    /\ earlierHome = <<>>

\* ---------------------------------------------------------------- handlers
Ops == {"principal", "home", "calendars", "events", "create", "delete"}

FirstPc(o) ==
    CASE o \in {"principal", "home", "calendars"} -> "p1"
      [] o = "events" -> "report"
      [] o = "create" -> "put"
      [] o = "delete" -> "delete"

WellKnown == <<"/", ".well-known", "/", "caldav">>
Root == <<"/">>

PrincipalPaths_RootFirst == <<Root, WellKnown>>

\* for path in ("/.well-known/caldav", "/")
PrincipalPaths == <<WellKnown, Root>>

\* One PROPFIND of principal() and what follows it up to the next request:
\* dav, extract_principal_href, and the return or the next attempt.
PrincipalRequest(path, prop, resp, nextPc) ==
    LET d == Dav(envOK, resp)
        bad == ~d.raised /\ ParseRaises(resp.body)
        val == IF d.raised \/ bad THEN None ELSE ExtractPrincipalHref(resp.body)
        outcome == IF d.raised THEN d.cause ELSE IF bad THEN "malformed" ELSE "ok"
        e == Entry("principal", "PROPFIND", BASE \o path, "0", prop, None, resp, outcome, val)
    IN /\ log' = IF d.sent THEN Append(log, e) ELSE log
       /\ doc' = IF d.raised THEN doc ELSE resp.body
       /\ IF d.raised
          THEN pc' = "done" /\ result' = Raise(d.status, d.cause) /\ UNCHANGED pHref
          ELSE IF bad
          THEN pc' = "done" /\ result' = Raise(502, "malformed") /\ UNCHANGED pHref
          ELSE IF Truthy(val)
          THEN IF op = "principal"
               THEN pc' = "done" /\ result' = Return(val.v, <<>>, <<>>) /\ UNCHANGED pHref
               ELSE pc' = "home" /\ pHref' = val.v /\ UNCHANGED result
          ELSE IF nextPc = "none"
          THEN pc' = "done" /\ result' = Raise(500, "discovery") /\ UNCHANGED pHref
          ELSE pc' = nextPc /\ UNCHANGED <<result, pHref>>
       /\ UNCHANGED <<BASE, envOK, earlierHome, op, req, homeHref>>

Call_ReusesHome(o, r) ==
    /\ pc = "idle"
    /\ op' = o
    /\ req' = r
    /\ pHref' = <<>>
    /\ log' = <<>>
    /\ doc' = NoDoc
    /\ IF r.key
       THEN /\ result' = NoResult
            /\ IF o = "calendars" /\ earlierHome # <<>>
               THEN pc' = "list1" /\ homeHref' = earlierHome
               ELSE pc' = FirstPc(o) /\ homeHref' = <<>>
       ELSE pc' = "done" /\ result' = Raise(401, "apikey") /\ homeHref' = <<>>
    /\ UNCHANGED <<BASE, envOK, earlierHome>>

\* an inbound request arrives: require_key, then the handler starts
Call(o, r) ==
    /\ pc = "idle"
    /\ op' = o
    /\ req' = r
    /\ pHref' = <<>>
    /\ homeHref' = <<>>
    /\ log' = <<>>
    /\ doc' = NoDoc
    /\ IF r.key
       THEN pc' = FirstPc(o) /\ result' = NoResult
       ELSE pc' = "done" /\ result' = Raise(401, "apikey")
    /\ UNCHANGED <<BASE, envOK, earlierHome>>

\* principal(): the loop over the two paths, current-user-principal
PrincipalAttempt ==
    /\ pc \in {"p1", "p2"}
    /\ \E resp \in Responses(PrincipalDocs) :
         LET i == IF pc = "p1" THEN 1 ELSE 2
         IN PrincipalRequest(PrincipalPaths[i], "current-user-principal", resp,
                             IF i = 1 THEN "p2" ELSE "p3")

\* principal(): the principal-URL fallback at the root
PrincipalFallback ==
    /\ pc = "p3"
    /\ \E resp \in Responses(PrincipalDocs) :
         PrincipalRequest(Root, "principal-URL", resp, "none")

\* f"{BASE}{p}"
HomeUrl(base, p) == base \o p

\* home(): the calendar-home-set PROPFIND on the principal href
HomeRequest ==
    /\ pc = "home"
    /\ \E resp \in Responses(HomeDocs) :
         LET d == Dav(envOK, resp)
             bad == ~d.raised /\ ParseRaises(resp.body)
             val == IF d.raised \/ bad THEN None ELSE ExtractHomeHref(resp.body)
             outcome == IF d.raised THEN d.cause ELSE IF bad THEN "malformed" ELSE "ok"
             e == Entry("home", "PROPFIND", HomeUrl(BASE, pHref), "0", "calendar-home-set",
                        Some(pHref), resp, outcome, val)
         IN /\ log' = IF d.sent THEN Append(log, e) ELSE log
            /\ doc' = IF d.raised THEN doc ELSE resp.body
            /\ IF d.raised
               THEN pc' = "done" /\ result' = Raise(d.status, d.cause) /\ UNCHANGED homeHref
               ELSE IF bad
               THEN pc' = "done" /\ result' = Raise(502, "malformed") /\ UNCHANGED homeHref
               ELSE IF ~Truthy(val)
               THEN pc' = "done" /\ result' = Raise(500, "discovery") /\ UNCHANGED homeHref
               ELSE IF op = "home"
               THEN pc' = "done" /\ result' = Return(val.v, <<>>, <<>>) /\ UNCHANGED homeHref
               ELSE pc' = "list1" /\ homeHref' = val.v /\ UNCHANGED result
            /\ UNCHANGED <<BASE, envOK, earlierHome, op, req, pHref>>

\* ---------------------------------------------------------------- multistatus
Resp(h, n, d) == [href |-> h, name |-> n, data |-> d]

\* (el.text or "").strip()
TextOf(el) == Strip(OrElse(el.text, <<>>))

ListKeeps_NeedsName(r) ==
    r.href.present /\ r.name.present /\ TextOf(r.href) # <<>> /\ TextOf(r.name) # <<>>

\* calendars(): the response is skipped unless both elements exist and
\* the trimmed href is not empty
ListKeeps(r) == r.href.present /\ r.name.present /\ TextOf(r.href) # <<>>

\* calendars(): the loop over root.findall(".//d:response")
RECURSIVE ListItems(_)
ListItems(resps) ==
    IF resps = <<>> THEN <<>>
    ELSE LET r == Head(resps)
         IN (IF ListKeeps(r)
             THEN <<[href |-> TextOf(r.href), displayname |-> TextOf(r.name)]>>
             ELSE <<>>) \o ListItems(Tail(resps))

EventKeeps_AnyData(r) == r.href.present /\ r.data.present /\ TextOf(r.href) # <<>>

\* events(): both elements exist and both trimmed texts are not empty
EventKeeps(r) ==
    r.href.present /\ r.data.present /\ TextOf(r.href) # <<>> /\ TextOf(r.data) # <<>>

\* events(): the loop over root.findall(".//d:response")
RECURSIVE EventItems(_)
EventItems(resps) ==
    IF resps = <<>> THEN <<>>
    ELSE LET r == Head(resps)
         IN (IF EventKeeps(r)
             THEN <<[href |-> TextOf(r.href), ics |-> TextOf(r.data)]>>
             ELSE <<>>) \o EventItems(Tail(resps))

ListHrefElems ==
    {Absent, Elem(None), Elem(Some(<<SP>>)), Elem(Some(<<SP>> \o RelCalendar \o <<LF>>))}

NameElems == {Absent, Elem(None), Elem(Some(<<"Work", SP>>))}

ListDocs ==
    {NoDoc} \cup
    { [EmptyDoc EXCEPT !.resps = rs] :
        rs \in SeqsUpTo({Resp(h, n, Absent) : h \in ListHrefElems, n \in NameElems}, MaxResp) }

EventHrefElems ==
    {Absent, Elem(None), Elem(Some(<<LF>> \o RelCalendar \o <<"e1.ics", SP>>)),
     Elem(Some(RelCalendar \o <<"e2.ics">>))}

DataElems == {Absent, Elem(None), Elem(Some(<<LF, SP>>)), Elem(Some(<<LF, "BEGIN:VCALENDAR", LF>>))}

EventDocs ==
    {NoDoc} \cup
    { [EmptyDoc EXCEPT !.resps = rs] :
        rs \in SeqsUpTo({Resp(h, Absent, d) : h \in EventHrefElems, d \in DataElems}, MaxResp) }

\* ---------------------------------------------------------------- listing
\* do_list: body if ns_ok else body.replace(typo, standard)
ListNamespace(ns_ok) ==
    IF ns_ok THEN "urn:ietf:ietf:params:xml:ns:caldav" ELSE "urn:ietf:params:xml:ns:caldav"

\* calendars(): parse_xml(res), the loop, the return
FinishList(body) ==
    IF ParseRaises(body)
    THEN Raise(502, "malformed")
    ELSE Return(homeHref, ListItems(body.resps), <<>>)

ListEntry(ns_ok, resp, d) ==
    Entry("list", "PROPFIND", Resolve(BASE, homeHref), "1", ListNamespace(ns_ok),
          Some(homeHref), resp,
          IF d.raised THEN d.cause ELSE IF ParseRaises(resp.body) THEN "malformed" ELSE "ok",
          None)

\* calendars(): try: res = do_list(True)
ListFirst ==
    /\ pc = "list1"
    /\ \E resp \in Responses(ListDocs) :
         LET d == Dav(envOK, resp)
         IN /\ log' = IF d.sent THEN Append(log, ListEntry(TRUE, resp, d)) ELSE log
            /\ IF d.raised
               THEN pc' = "list2" /\ UNCHANGED <<doc, result>>
               ELSE pc' = "done" /\ doc' = resp.body /\ result' = FinishList(resp.body)
    /\ UNCHANGED <<BASE, envOK, earlierHome, op, req, pHref, homeHref>>

\* calendars(): except HTTPException: res = do_list(False)
ListRetry ==
    /\ pc = "list2"
    /\ \E resp \in Responses(ListDocs) :
         LET d == Dav(envOK, resp)
         IN /\ log' = IF d.sent THEN Append(log, ListEntry(FALSE, resp, d)) ELSE log
            /\ pc' = "done"
            /\ IF d.raised
               THEN result' = Raise(d.status, d.cause) /\ UNCHANGED doc
               ELSE doc' = resp.body /\ result' = FinishList(resp.body)
    /\ UNCHANGED <<BASE, envOK, earlierHome, op, req, pHref, homeHref>>

\* ---------------------------------------------------------------- event query
\* events(): the REPORT on the calendar href, parse_xml, the loop, the return
EventsReport ==
    /\ pc = "report"
    /\ \E resp \in Responses(EventDocs) :
         LET d == Dav(envOK, resp)
             bad == ~d.raised /\ ParseRaises(resp.body)
             outcome == IF d.raised THEN d.cause ELSE IF bad THEN "malformed" ELSE "ok"
             e == Entry("events", "REPORT", Resolve(BASE, req.href), "1", "calendar-query",
                        Some(req.href), resp, outcome, None)
         IN /\ log' = IF d.sent THEN Append(log, e) ELSE log
            /\ doc' = IF d.raised THEN doc ELSE resp.body
            /\ result' = IF d.raised THEN Raise(d.status, d.cause)
                         ELSE IF bad THEN Raise(502, "malformed")
                         ELSE Return(<<>>, EventItems(resp.body.resps), <<>>)
    /\ pc' = "done"
    /\ UNCHANGED <<BASE, envOK, earlierHome, op, req, pHref, homeHref>>

\* ---------------------------------------------------------------- create
\* (ev.uid or uuid.uuid4().hex).upper()
Uid(r) == Upper(OrElse(r.uid, r.gen))

Description_FirstOnly(r) == Replace_FirstOnly(OrElse(r.description, <<>>), <<LF>>, <<BS, "n">>)

\* (ev.description or '').replace('\n', '\\n')
Description(r) == Replace(OrElse(r.description, <<>>), <<LF>>, <<BS, "n">>)

\* the list lines of create()
IcsLines(r) ==
    << <<"BEGIN:VCALENDAR">>,
       <<"VERSION:2.0">>,
       <<"PRODID:-//Clockwork//Study//EN">>,
       <<"CALSCALE:GREGORIAN">>,
       <<"BEGIN:VEVENT">>,
       <<"UID:">> \o Uid(r) \o <<"@clockwork">>,
       <<"DTSTAMP:">> \o r.now,
       <<"DTSTART:">> \o r.start,
       <<"DTEND:">> \o r.end,
       <<"SUMMARY:">> \o r.summary,
       <<"DESCRIPTION:">> \o Description(r),
       <<"END:VEVENT">>,
       <<"END:VCALENDAR">>,
       <<>> >>

\* "\r\n".join(lines)
Ics(r) == Join(IcsLines(r), <<CR, LF>>)

\* f"{calendar_url}{uid}.ics"
PutUrl(base, r) == Resolve(base, r.href) \o Uid(r) \o <<".ics">>

CreatedHref_WithSeparator(r) == r.href \o <<"/">> \o Uid(r) \o <<".ics">>

\* the href create() returns: f"{ev.calendar_href}{uid}.ics"
CreatedHref(r) == r.href \o Uid(r) \o <<".ics">>

IfNoneMatch_Absent == ""

\* headers={..., "If-None-Match": "*"}
IfNoneMatch == "*"

PutSuccess == {200, 201, 204}
DeleteSuccess == {200, 202, 204}

WriteStatuses == {200, 201, 202, 204, 404, 412}

\* what the server may answer to a PUT or DELETE
WriteResponses == {Transport} \cup {Http(s, NoDoc) : s \in WriteStatuses}

WriteOutcome_ErrorsFrom400(resp, success) ==
    IF resp.kind = "transport" THEN Raise(502, "transport")
    ELSE IF resp.status >= 400 THEN Raise(resp.status, "upstream")
    ELSE NoResult

\* the outcome of requests.put / requests.delete and the status test after it
WriteOutcome(resp, success) ==
    IF resp.kind = "transport" THEN Raise(502, "transport")
    ELSE IF resp.status \notin success THEN Raise(resp.status, "upstream")
    ELSE NoResult

\* create(): build the document, PUT it, return uid and href
CreatePut ==
    /\ pc = "put"
    /\ \E resp \in WriteResponses :
         LET w == WriteOutcome(resp, PutSuccess)
             e == [Entry("create", "PUT", PutUrl(BASE, req), "", "text/calendar",
                         Some(req.href), resp,
                         IF w.kind = "error" THEN w.cause ELSE "ok", None)
                   EXCEPT !.ifNoneMatch = IfNoneMatch, !.data = Ics(req)]
         IN /\ log' = Append(log, e)
            /\ result' = IF w.kind = "error" THEN w
                         ELSE Return(CreatedHref(req), <<>>, Uid(req))
    /\ pc' = "done"
    /\ UNCHANGED <<BASE, envOK, earlierHome, op, req, pHref, homeHref, doc>>

\* ---------------------------------------------------------------- delete
\* url = d.href if d.href.startswith(('http://', 'https://')) else f"{BASE}{d.href}"
DeleteUrl(base, h) == Resolve(base, h)

\* delete(): DELETE the resolved href
DeleteRequest ==
    /\ pc = "delete"
    /\ \E resp \in WriteResponses :
         LET w == WriteOutcome(resp, DeleteSuccess)
             e == Entry("delete", "DELETE", DeleteUrl(BASE, req.href), "", "",
                        Some(req.href), resp,
                        IF w.kind = "error" THEN w.cause ELSE "ok", None)
         IN /\ log' = Append(log, e)
            /\ result' = IF w.kind = "error" THEN w ELSE Return(<<>>, <<>>, <<>>)
    /\ pc' = "done"
    /\ UNCHANGED <<BASE, envOK, earlierHome, op, req, pHref, homeHref, doc>>

\* ---------------------------------------------------------------- inbound requests
RelCalendarNoSlash == RelHome \o <<"work">>
AbsCalendar == HTTPS \o <<"p01-caldav.icloud.com">> \o RelCalendar
UpperEvent == <<"H", "T", "T", "P", "S", ":", "/", "/", "p01-caldav.icloud.com">>
                  \o RelCalendar \o <<"ABC.ics">>

CalendarHrefs == {RelCalendar, RelCalendarNoSlash, AbsCalendar}

\* calendar_href and uid are unvalidated strings: an href that is only a
\* scheme, and a uid that holds no letters
SchemeOnly == <<"h", "t", "t", "p", "s", ":">>
SlashUid == <<"/", "/", "x">>
EventHrefs == {RelCalendar \o <<"ABC.ics">>, AbsCalendar \o <<"ABC.ics">>, UpperEvent}

Start == <<"20250101T090000Z">>
End == <<"20250101T093000Z">>
Now == <<"20241231T235959Z">>
Hex == <<"d", "e", "a", "d", "0", "1">>

Summaries == {<<"Standup">>, <<"a", LF, "b">>}
DescChars == {"a", LF, CR, BS, ","}
Descriptions == {None} \cup {Some(t) : t \in SeqsUpTo(DescChars, MaxDescLen)}
Uids == {None, Some(<<>>), Some(<<"a", "b", "1">>)}

CreateReq(h, s, d, u) ==
    [NoReq EXCEPT !.href = h, !.start = Start, !.end = End, !.summary = s,
                  !.description = d, !.uid = u, !.now = Now, !.gen = Hex]

\* the inbound requests of handler o; a request with a wrong API key is
\* rejected before anything is read from it
Reqs(o) ==
    {[NoReq EXCEPT !.key = FALSE]} \cup
    CASE o \in {"principal", "home", "calendars"} -> {NoReq}
      [] o = "events" ->
           {[NoReq EXCEPT !.href = h, !.start = Start, !.end = End] : h \in CalendarHrefs}
      [] o = "create" ->
           {CreateReq(h, s, d, u) :
              h \in CalendarHrefs, s \in Summaries, d \in {None, Some(<<"a", LF>>)},
              u \in Uids}
           \cup {CreateReq(RelCalendar, <<"Standup">>, d, None) : d \in Descriptions}
           \cup {CreateReq(SchemeOnly, <<"Standup">>, None, Some(SlashUid))}
      [] o = "delete" -> {[NoReq EXCEPT !.href = h] : h \in EventHrefs}

\* the handler's result goes back to the caller and its locals are gone:
\* nothing is kept from one call to the next (no module state is written)
Deliver ==
    /\ pc = "done"
    /\ pc' = "idle"
    /\ op' = "none"
    /\ req' = NoReq
    /\ pHref' = <<>>
    /\ homeHref' = <<>>
    /\ log' = <<>>
    /\ doc' = NoDoc
    /\ result' = NoResult
    /\ earlierHome' = IF homeHref # <<>> THEN homeHref ELSE earlierHome
    /\ UNCHANGED <<BASE, envOK>>

\* ---------------------------------------------------------------- specification
Next ==
    \/ \E o \in Ops : \E r \in Reqs(o) : Call(o, r)
    \/ Deliver
    \/ PrincipalAttempt
    \/ PrincipalFallback
    \/ HomeRequest
    \/ ListFirst
    \/ ListRetry
    \/ EventsReport
    \/ CreatePut
    \/ DeleteRequest

Spec == Init /\ [][Next]_vars

\* ---------------------------------------------------------------- claims
ChainOps == {"principal", "home", "calendars"}

EndsWith(s, p) == Len(s) >= Len(p) /\ SubSeq(s, Len(s) - Len(p) + 1, Len(s)) = p

\* the requests of one code place, in the order issued
Issued(step) == SelectSeq(log, LAMBDA e : e.step = step)

\* the fixed order of principal(): target and requested property
PrincipalPlan ==
    << [url |-> BASE \o WellKnown, body |-> "current-user-principal"],
       [url |-> BASE \o Root, body |-> "current-user-principal"],
       [url |-> BASE \o Root, body |-> "principal-URL"] >>

\* C1: principal discovery issues its PROPFINDs in the fixed order
\* well-known path, root, principal-URL at the root; request k+1 is issued
\* only after request k got a successful response that yields no href; the
\* first response that yields an href ends the requests and its href is
\* returned; three responses without an href end in DiscoveryFailed (500).
C1_PrincipalOrder ==
    op \in ChainOps =>
      LET P == Issued("principal")
          n == Len(P)
      IN /\ n <= 3
         /\ \A k \in 1..n :
              /\ log[k] = P[k]
              /\ P[k].method = "PROPFIND"
              /\ P[k].url = PrincipalPlan[k].url
              /\ P[k].body = PrincipalPlan[k].body
              /\ k < n => P[k].outcome = "ok" /\ ~Truthy(P[k].got)
              /\ Truthy(P[k].got) =>
                   /\ k = n
                   /\ op = "principal" =>
                        /\ pc = "done"
                        /\ result = Return(P[k].got.v, <<>>, <<>>)
         /\ (op = "principal" /\ result.kind = "ok") => (n >= 1 /\ Truthy(P[n].got))
         /\ (n = 3 /\ P[3].outcome = "ok" /\ ~Truthy(P[3].got)) =>
              (pc = "done" /\ result = Raise(500, "discovery"))

\* C1 witness: the third request was needed and its response gave the href
C1_Witness ==
    /\ op = "principal"
    /\ pc = "done"
    /\ Len(log) = 3
    /\ result.kind = "ok"
    /\ result.href = RelPrincipal

\* C2 (as claimed): the depth-1 listing PROPFIND is issued at most twice,
\* the second one if and only if the server rejected the first one (answered
\* it with an error status); an accepted first attempt is the only one; a
\* rejected second attempt ends the operation with its error.
C2_RetryIffRejected ==
    LET L == Issued("list")
    IN /\ Len(L) <= 2
       /\ Len(L) = 2 => (L[1].outcome = "upstream" /\ L[2].body = ListNamespace(FALSE))
       /\ (Len(L) >= 1 /\ L[1].outcome = "upstream" /\ pc = "done") => Len(L) = 2
       /\ (Len(L) >= 1 /\ L[1].outcome \in {"ok", "malformed"}) => (Len(L) = 1 /\ pc = "done")
       /\ (Len(L) = 2 /\ L[2].outcome = "upstream") =>
            (pc = "done" /\ result = Raise(L[2].status, "upstream"))

\* C3 (as claimed): in every operation, a request that fails with a
\* transport failure is the last request of the operation, and the
\* operation ends with the transport error.
C3_NoRequestAfterTransportFailure ==
    \A k \in 1..Len(log) :
      log[k].outcome = "transport" =>
        /\ k = Len(log)
        /\ pc = "done" => result = Raise(502, "transport")

\* C4: in the principal step, the home step and the event query, a request
\* answered with an error status is the last request of the operation and
\* the operation fails with that status; a calendar-home-set PROPFIND is
\* sent only after a principal response that gave an href, and a listing
\* PROPFIND only after a home response that gave one.
C4_UpstreamErrorAborts ==
    /\ \A k \in 1..Len(log) :
         (log[k].step \in {"principal", "home", "events"} /\ log[k].status >= 400) =>
           /\ k = Len(log)
           /\ pc = "done"
           /\ result = Raise(log[k].status, "upstream")
    /\ \A k \in 1..Len(log) :
         log[k].step = "home" =>
           (k > 1 /\ log[k - 1].step = "principal" /\ log[k - 1].status < 400
                  /\ Truthy(log[k - 1].got))
    /\ \A k \in 1..Len(log) :
         log[k].step = "list" =>
           \E j \in 1..(k - 1) :
             log[j].step = "home" /\ log[j].status < 400 /\ Truthy(log[j].got)

\* C4 witness: a listing whose home step was answered 404 has ended with
\* 404 after the principal request and the home request
C4_Witness ==
    /\ op = "calendars"
    /\ pc = "done"
    /\ Len(log) >= 2
    /\ log[Len(log)].step = "home"
    /\ log[Len(log)].status = 404
    /\ result.status = 404

\* the suffix a request appends to the resolved href
TargetSuffix(e) == IF e.step = "create" THEN Upper(OrElse(req.uid, req.gen)) \o <<".ics">> ELSE <<>>

\* C5 (as claimed): every request whose target comes from an href goes to
\* the href itself when the href is already absolute and to the base
\* authority followed by the href otherwise; the base authority is never
\* prefixed to an absolute href.
C5_TargetsAreResolved ==
    \A k \in 1..Len(log) :
      log[k].src.some =>
        LET h == log[k].src.v
        IN log[k].url = (IF IsFullUrl(h) THEN h ELSE BASE \o h) \o TargetSuffix(log[k])

\* an href that begins with a scheme and an authority: letters, then "://"
HasSchemeAuthority(h) ==
    \E i \in 2..(Len(h) - 2) :
      /\ SubSeq(h, i, i + 2) = <<":", "/", "/">>
      /\ \A j \in 1..(i - 1) : h[j] \notin {":", "/"}

\* the requests whose URL is the resolved href itself
ResolvedRequests == {k \in 1..Len(log) : log[k].step \in {"list", "events", "delete"}}

\* the hrefs the running handler has resolved for a request
ResolvedHrefs ==
    {log[k].src.v : k \in {j \in 1..Len(log) : log[j].step \in {"list", "events", "create", "delete"}}}

NonBlank(el) ==
    el.present /\ el.text.some /\ \E i \in 1..Len(el.text.v) : el.text.v[i] \notin Whitespace

\* a listing has parsed its multistatus document and returned
ListingReturned == op = "calendars" /\ pc = "done" /\ result.kind = "ok"

\* a listing's last request was answered with a well-formed success body
ListingAnswered ==
    /\ op = "calendars"
    /\ pc = "done"
    /\ Len(log) >= 1
    /\ log[Len(log)].step = "list"
    /\ log[Len(log)].outcome = "ok"

ListEntryOf(r) == [href |-> TextOf(r.href), displayname |-> TextOf(r.name)]

\* C7 (as claimed): the listing returns one entry for each response element
\* that has both an href element and a displayname element, in document
\* order, repeated hrefs kept; other responses are skipped without an error.
C7_OneEntryPerHrefAndName ==
    /\ ListingAnswered => result.kind = "ok"
    /\ ListingReturned =>
         LET kept == SelectSeq(doc.resps, LAMBDA r : r.href.present /\ r.name.present)
         IN /\ Len(result.items) = Len(kept)
            /\ \A i \in 1..Len(kept) : result.items[i] = ListEntryOf(kept[i])

\* C7 (amended): the listing returns one entry for each response element
\* that has an href element with text other than white space and a
\* displayname element (whose text may be empty), in document order,
\* repeated hrefs kept; other responses are skipped without an error.
C7_OneEntryPerNonBlankHrefAndName ==
    /\ ListingAnswered => result.kind = "ok"
    /\ ListingReturned =>
         LET kept == SelectSeq(doc.resps, LAMBDA r : NonBlank(r.href) /\ r.name.present)
         IN /\ Len(result.items) = Len(kept)
            /\ \A i \in 1..Len(kept) : result.items[i] = ListEntryOf(kept[i])

\* C7 witness: of two responses the first is skipped and the second, which
\* has an empty displayname, is the one entry returned
C7_Witness ==
    /\ ListingReturned
    /\ Len(doc.resps) = 2
    /\ ~doc.resps[1].name.present
    /\ doc.resps[2].name = Elem(None)
    /\ Len(result.items) = 1
    /\ result.items[1].href = RelCalendar

EventsReturned == op = "events" /\ pc = "done" /\ result.kind = "ok"

EventsAnswered ==
    op = "events" /\ pc = "done" /\ Len(log) = 1 /\ log[1].outcome = "ok"

EventEntryOf(r) == [href |-> TextOf(r.href), ics |-> TextOf(r.data)]

\* C8 (as claimed): the event-query result has a pair for a response
\* element if and only if the response has an href element and a
\* calendar-data element with non-empty text; the pairs keep document order
\* and a dropped response is no error.
C8_PairIffHrefAndData ==
    /\ EventsAnswered => result.kind = "ok"
    /\ EventsReturned =>
         LET kept == SelectSeq(doc.resps,
                        LAMBDA r : r.href.present /\ r.data.present /\ Truthy(r.data.text))
         IN /\ Len(result.items) = Len(kept)
            /\ \A i \in 1..Len(kept) : result.items[i] = EventEntryOf(kept[i])

\* C8 (amended): the event-query result has a pair for a response element
\* if and only if the response has an href element and a calendar-data
\* element that both have text other than white space; the pairs keep
\* document order and a dropped response is no error.
C8_PairIffNonBlankHrefAndData ==
    /\ EventsAnswered => result.kind = "ok"
    /\ EventsReturned =>
         LET kept == SelectSeq(doc.resps, LAMBDA r : NonBlank(r.href) /\ NonBlank(r.data))
         IN /\ Len(result.items) = Len(kept)
            /\ \A i \in 1..Len(kept) : result.items[i] = EventEntryOf(kept[i])

\* C8 witness: of two responses the first has an href and no calendar-data
\* and is dropped, the second has both and is the one pair returned
C8_Witness ==
    /\ EventsReturned
    /\ Len(doc.resps) = 2
    /\ NonBlank(doc.resps[1].href)
    /\ ~doc.resps[1].data.present
    /\ Len(result.items) = 1
    /\ result.items[1].href = RelCalendar \o <<"e2.ics">>

\* the documents create() has sent
SentDocuments == {log[k].data : k \in {j \in 1..Len(log) : log[j].step = "create"}}

\* C9 (as claimed): in the document of every create request each LF is
\* preceded by CR, and the document ends with CR LF.
C9_NoBareLF ==
    \A d \in SentDocuments :
      /\ \A i \in 1..Len(d) : d[i] = LF => (i > 1 /\ d[i - 1] = CR)
      /\ EndsWith(d, <<CR, LF>>)

\* what follows the DESCRIPTION value in the document
DocumentTail == <<CR, LF, "END:VEVENT", CR, LF, "END:VCALENDAR", CR, LF>>

\* the value of the last DESCRIPTION property line of document d
DescriptionValue(d) ==
    LET at == {i \in 1..Len(d) : d[i] = "DESCRIPTION:"}
        p == CHOOSE i \in at : \A j \in at : j <= i
    IN SubSeq(d, p + 1, Len(d) - Len(DocumentTail))

\* C10: the DESCRIPTION property carries the description with each LF
\* replaced by backslash and n and every other character unchanged, so it
\* holds no LF; an absent description gives an empty value.
C10_DescriptionEscaped ==
    \A d \in SentDocuments :
      LET text == IF req.description.some THEN req.description.v ELSE <<>>
          v == DescriptionValue(d)
          at(i) == i + Cardinality({j \in 1..(i - 1) : text[j] = LF})
      IN /\ EndsWith(d, <<"DESCRIPTION:">> \o v \o DocumentTail)
         /\ Len(v) = Len(text) + Cardinality({j \in 1..Len(text) : text[j] = LF})
         /\ \A i \in 1..Len(text) :
              IF text[i] = LF
              THEN v[at(i)] = BS /\ v[at(i) + 1] = "n"
              ELSE v[at(i)] = text[i]
         /\ \A i \in 1..Len(v) : v[i] # LF
         /\ ~req.description.some => v = <<>>

\* C10 witness: a description of a newline and a comma was sent, and the
\* document carries backslash, n, comma
C10_Witness ==
    /\ op = "create"
    /\ pc = "done"
    /\ Len(log) = 1
    /\ req.description = Some(<<LF, ",">>)
    /\ DescriptionValue(log[1].data) = <<BS, "n", ",">>


\* C11 (as claimed): for every calendar href, with or without a trailing
\* slash, the PUT goes to the resolved calendar href and the file name
\* {UID}.ics separated by exactly one "/".
C11_PutInsideCollection ==
    \A k \in 1..Len(log) :
      log[k].step = "create" =>
        log[k].url = RStrip(Resolve(BASE, log[k].src.v), {"/"}) \o <<"/">> \o TargetSuffix(log[k])

\* the final request of a finished create or delete
WriteFinished == op \in {"create", "delete"} /\ pc = "done" /\ Len(log) = 1

\* C12: a create succeeds exactly when the server answered its PUT with
\* 200, 201 or 204, a delete exactly when the server answered its DELETE
\* with 200, 202 or 204; any other status the server answers ends the
\* operation with an upstream error carrying that status.
C12_SuccessIffStatusInSet ==
    WriteFinished =>
      LET e == log[1]
          good == IF op = "create" THEN {200, 201, 204} ELSE {200, 202, 204}
      IN /\ log[1].method = (IF op = "create" THEN "PUT" ELSE "DELETE")
         /\ result.kind = "ok" <=> e.status \in good
         /\ (e.status > 0 /\ e.status \notin good) => result = Raise(e.status, "upstream")

\* C12 witness: a DELETE answered 404 ended with an upstream error 404
C12_Witness ==
    /\ WriteFinished
    /\ op = "delete"
    /\ log[1].status = 404
    /\ result.kind = "error"
    /\ result.status = 404


\* the requests that go through dav(): every PROPFIND and REPORT
DavSteps == {"principal", "home", "list", "events"}

\* C13 (as claimed): whenever the server answers a PROPFIND or REPORT of
\* principal, home, listing or event query with a status that is no
\* success, the operation ends with an error that carries that status.
C13_SameStatusSurfaced ==
    \A k \in 1..Len(log) :
      (log[k].step \in DavSteps /\ log[k].status > 0 /\ log[k].status \notin 200..299) =>
        (pc = "done" => (result.kind = "error" /\ result.status = log[k].status))

\* C13 (amended): whenever the server answers a PROPFIND or REPORT of
\* principal, home or event query, or the second listing PROPFIND, with a
\* status of 400 or above, that request is the last one and the operation
\* ends with an upstream error carrying that status; a first listing
\* PROPFIND answered so is followed by the one retry instead.
C13_ErrorStatusSurfaced ==
    \A k \in 1..Len(log) :
      (log[k].step \in DavSteps /\ log[k].status >= 400) =>
        IF log[k].step = "list" /\ log[k].body = ListNamespace(TRUE)
        THEN pc = "list2" \/ (k < Len(log) /\ log[k + 1].body = ListNamespace(FALSE))
        ELSE /\ k = Len(log)
             /\ pc = "done"
             /\ result = Raise(log[k].status, "upstream")

\* C13 witness: a listing whose first attempt was answered 502 and whose
\* retry was answered 404 ended with 404
C13_Witness ==
    /\ op = "calendars"
    /\ pc = "done"
    /\ Len(Issued("list")) = 2
    /\ Issued("list")[1].status = 502
    /\ Issued("list")[2].status = 404
    /\ result = Raise(404, "upstream")

\* C14: when a response that dav() accepted has a body that is not
\* well-formed XML, the request is the last one of the operation and the
\* operation ends with the MalformedResponse failure (502) and no result.
C14_MalformedEndsOperation ==
    /\ \A k \in 1..Len(log) : log[k].outcome = "malformed" => k = Len(log)
    /\ (/\ Len(log) >= 1
        /\ log[Len(log)].step \in DavSteps
        /\ log[Len(log)].status \in 1..399
        /\ ~doc.wf) =>
         (pc = "done" /\ result = Raise(502, "malformed"))

\* C14 witness: a listing whose home response (status 207) was not
\* well-formed ended with 502 after the home request
C14_Witness ==
    /\ op = "calendars"
    /\ pc = "done"
    /\ Len(log) >= 2
    /\ log[Len(log)].step = "home"
    /\ log[Len(log)].status = 207
    /\ ~doc.wf
    /\ result = Raise(502, "malformed")


\* the file-name stem of a URL that ends with ".ics": what stands between
\* the last "/" and the extension
FileStem(url) ==
    LET at == {i \in 1..Len(url) : url[i] = "/"}
        p == CHOOSE i \in at : \A j \in at : j <= i
    IN SubSeq(url, p + 1, Len(url) - 1)

\* the value of the UID property line of document d, without the product tag
UidValue(d) ==
    LET p == CHOOSE i \in 1..Len(d) : d[i] = "UID:"
        q == CHOOSE i \in (p + 1)..Len(d) : d[i] = "@clockwork"
    IN SubSeq(d, p + 1, q - 1)

LowercaseLetters == {"a", "b", "c", "d", "e", "f"}

\* C15 (as claimed): in every create the value of the UID property line,
\* the file-name stem of the PUT URL and the uid returned to the caller
\* are one and the same value, and that value holds no lowercase letter.
C15_OneUidEverywhere ==
    \A k \in 1..Len(log) :
      log[k].step = "create" =>
        LET u == UidValue(log[k].data)
        IN /\ FileStem(log[k].url) = u
           /\ result.kind = "ok" => result.uid = u
           /\ \A i \in 1..Len(u) : u[i] \notin LowercaseLetters


\* the positions in the log of the requests of one step
At(step) == {k \in 1..Len(log) : log[k].step = step}

\* C16: whatever calls came before, a calendar-listing call issues the
\* principal request(s) first, then exactly one calendar-home-set PROPFIND
\* (depth 0) for the principal href its own last principal request
\* obtained, then the depth-1 listing PROPFIND(s) for the home href its own
\* home request obtained; no listing request precedes the home answer and
\* no listing is returned without the whole chain.
C16_FullChainEachCall ==
    op = "calendars" =>
      /\ \A k \in At("principal") : \A j \in 1..(k - 1) : j \in At("principal")
      /\ Cardinality(At("home")) <= 1
      /\ \A h \in At("home") :
           /\ h > 1
           /\ h - 1 \in At("principal")
           /\ Truthy(log[h - 1].got)
           /\ log[h].src = log[h - 1].got
           /\ log[h].depth = "0"
           /\ EndsWith(log[h].url, log[h - 1].got.v)
      /\ \A l \in At("list") :
           \E h \in At("home") :
             /\ h < l
             /\ \A j \in (h + 1)..l : j \in At("list")
             /\ Truthy(log[h].got)
             /\ log[l].src = log[h].got
             /\ log[l].depth = "1"
             /\ EndsWith(log[l].url, log[h].got.v)
      /\ pc = "home" => (Len(log) >= 1 /\ log[Len(log)].got = Some(pHref))
      /\ pc \in {"list1", "list2"} => \E h \in At("home") : log[h].got = Some(homeHref)
      /\ (pc = "done" /\ result.kind = "ok") =>
           (At("principal") # {} /\ At("home") # {} /\ At("list") # {})

\* C16 witness: after an earlier listing call that obtained the absolute
\* home href, a listing call obtained the relative one, sent its listing
\* PROPFIND there and returned
C16_Witness ==
    /\ op = "calendars"
    /\ pc = "done"
    /\ result.kind = "ok"
    /\ earlierHome = AbsHome
    /\ At("list") # {}
    /\ \A l \in At("list") : log[l].src = Some(RelHome)


ReadMethods == {"PROPFIND", "REPORT"}
WriteMethods == {"PUT", "DELETE"}

\* C17: principal, home, calendar listing and event query issue only
\* PROPFIND and REPORT requests; a PUT or DELETE is the only request of its
\* operation and ends it; a create that passed the API-key gate issues
\* exactly one request, a PUT with If-None-Match: *, and a delete that
\* passed it exactly one request, a DELETE.
C17_WritesOnlyAsFinalRequest ==
    /\ op \in ChainOps \cup {"events"} =>
         \A k \in 1..Len(log) : log[k].method \in ReadMethods
    /\ \A k \in 1..Len(log) :
         log[k].method \in WriteMethods =>
           (k = 1 /\ Len(log) = 1 /\ pc = "done" /\ op \in {"create", "delete"})
    /\ (op \in {"create", "delete"} /\ req.key) => (pc = "done" <=> Len(log) = 1)
    /\ (op = "create" /\ Len(log) >= 1) =>
         (log[1].method = "PUT" /\ log[1].ifNoneMatch = "*" /\ log[1].data # <<>>)
    /\ (op = "delete" /\ Len(log) >= 1) => log[1].method = "DELETE"

\* C17 witness: a create issued its one request, a conditional PUT that
\* the server refused with 412 because the resource exists
C17_Witness ==
    /\ op = "create"
    /\ pc = "done"
    /\ Len(log) = 1
    /\ log[1].method = "PUT"
    /\ log[1].ifNoneMatch = "*"
    /\ log[1].status = 412
    /\ result = Raise(412, "upstream")


\* the positions of the elements of els whose text is not empty after trimming
WithText(els) == {i \in 1..Len(els) : Truthy(els[i]) /\ Strip(els[i].v) # <<>>}

\* the trimmed text of the first element of els that has any
FirstText(els) ==
    LET p == CHOOSE i \in WithText(els) : \A j \in WithText(els) : i <= j
    IN Some(Strip(els[p].v))

\* C18 (as claimed): principal-href extraction returns the trimmed text of
\* the first candidate (current-user-principal/href before
\* principal-URL/href) for which some element anywhere in the document has
\* non-empty text, none only when no such element exists, and never an
\* empty or whitespace-only string.
C18_FirstNonEmptyMatchAnywhere ==
    (/\ Len(log) >= 1
     /\ log[Len(log)].step = "principal"
     /\ log[Len(log)].outcome = "ok") =>
       LET got == log[Len(log)].got
       IN /\ got = (IF WithText(doc.cup) # {} THEN FirstText(doc.cup)
                    ELSE IF WithText(doc.purl) # {} THEN FirstText(doc.purl)
                    ELSE None)
          /\ got.some => Strip(got.v) # <<>>


\* a create that returned to its caller
Created == op = "create" /\ pc = "done" /\ Len(log) = 1 /\ result.kind = "ok"

\* C19 (as claimed): for every calendar href and UID, the href a
\* successful create returns is resolved by delete to exactly the URL the
\* create's PUT was sent to.
C19_RoundTripForEveryHref ==
    Created => DeleteUrl(BASE, result.href) = log[1].url

\* C19 (amended): for every calendar href that begins with "/", "http://"
\* or "https://" and every UID, the href a successful create returns is
\* resolved by delete to exactly the URL the create's PUT was sent to.
C19_RoundTripForRootedHref ==
    (/\ Created
     /\ \/ StartsWith(req.href, <<"/">>)
        \/ StartsWith(req.href, HTTP)
        \/ StartsWith(req.href, HTTPS)) =>
       DeleteUrl(BASE, result.href) = log[1].url

\* C19 witness: a create on a relative calendar href with a supplied uid
\* returned an href that delete resolves to the PUT's URL under the base
C19_Witness ==
    /\ Created
    /\ req.href = RelCalendar
    /\ req.uid = Some(<<"a", "b", "1">>)
    /\ result.href = RelCalendar \o <<"A", "B", "1", ".ics">>
    /\ log[1].url = BASE \o result.href
    /\ DeleteUrl(BASE, result.href) = log[1].url

====
